---- MODULE Spec2Model ----
(***************************************************************************)
(* The download engine of src/main.py: DownloadTask records, the           *)
(* SingleDownloadWorker runnables, the QThreadPool that runs them, the     *)
(* MultiThreadDownloadManager and the HuggingFaceDownloader window whose   *)
(* slots receive the workers' signals.                                     *)
(*                                                                         *)
(* Threads.  The window and the manager live on the GUI thread; every      *)
(* handler there runs to its end before the next one starts.  Workers run  *)
(* on pool threads.  A signal emitted by a worker reaches the GUI thread   *)
(* through Qt's queued connections: one posted call per connection, kept   *)
(* in posting order (variable events).                                     *)
(*                                                                         *)
(* A file is counted in chunks: one element of a file or of a response     *)
(* body stands for one 8192-byte read of main.py:196.  The remote file is  *)
(* Body = <<1, .., FileSize>>; a 0 is a byte no writer ever wrote.         *)
(***************************************************************************)
EXTENDS Integers, Sequences, FiniteSets, TLC

\* ---- bounds of the model
NumFiles == 2
MaxWorkers == 3
FileSize == 2
MaxConcurrency == 2
MaxQueue == 2
MaxAdds == 1
MaxLines == 2
MaxEditAdds == 2
MaxEditWorkers == 1
MaxProxyWorkers == 2
MaxLoads == 2
MaxPaths == 2

Files == 1..NumFiles
Workers == 1..MaxWorkers
Body == [i \in 1..FileSize |-> i]

\* ---- DownloadTask.status values (main.py writes them in Chinese)
NotStarted == "not_started"      \* "待下载"  main.py:43
Preparing == "preparing"         \* "准备下载" main.py:108
Downloading == "downloading"     \* "下载中"  main.py:127, 1195
Completed == "completed"         \* "已完成"  main.py:136, 1219
Failed == "failed"               \* "失败"    main.py:144, 1222

\* progress is a ratio num/den, so that downloaded/total*100 stays exact
Pct(d, t) == <<d * 100, t>>
PctZero == <<0, 1>>
PctFull == <<100, 1>>

\* DownloadTask(repo_id, filename, local_dir, revision) with its defaults
NewTask == [status |-> NotStarted, progress |-> PctZero, size |-> 0, downloaded |-> 0]

VARIABLES
    tasks,          \* HuggingFaceDownloader.tasks: task_id -> DownloadTask
    start_btn,      \* start_btn.isEnabled()
    pause_btn,      \* pause_btn.isEnabled()
    active_workers, \* MultiThreadDownloadManager.active_workers: task_id -> worker
    completed_tasks,
    total_tasks,
    connections,    \* how often task_completed is connected to _on_task_completed
    maxThreadCount, \* thread_pool.maxThreadCount()
    queue,          \* runnables the pool has accepted and not begun
    worker,         \* every SingleDownloadWorker created so far
    nWorkers,       \* how many were created
    file,           \* local_dir/repo_id/filename, per task
    events,         \* queued signal deliveries on their way to the GUI thread
    fired,          \* all_completed emissions since the last start_downloads
    lastBatch,      \* the workers the last start_downloads dispatched
    batchCancelled, \* whether cancel_all ran since the last start_downloads: "no",
                    \* "early" (a worker of that batch had not finished) or "late"
    nAdds,          \* calls of add_tasks so far
    add_result,     \* what the last add_tasks told the user: a warning box or its log line
    add_blank,      \* whether a field of the last add_tasks was empty or all blanks
    log_text,       \* per worker run, the completion messages the window has logged
    proxy_enabled,  \* ProxyConfigWidget.proxy_enabled.isChecked()
    environ,        \* os.environ['HTTP_PROXY'] and ['HTTPS_PROXY'], "" when unset
    checkState,     \* TreeFileSelectionDialog: item.checkState(0) of every tree item
    selected_files, \* TreeFileSelectionDialog.selected_files
    constructed,    \* whether a FileTreeWidget exists
    show_toolbar,   \* FileTreeWidget.show_toolbar
    enable_simple_loading,
    _is_loading,
    stacked_widget, \* the page stacked_widget shows: "tree" or "loading"
    tree_widget,    \* item.checkState(0) of every item of tree_widget, <<>> when empty
    _selected_files,
    select_all_cb,  \* select_all_cb.isChecked()
    _simple_loader, \* "none", "running" or "finished"
    _detail_loader,
    loader_events,  \* signals of the DataLoader threads queued for the GUI thread
    nLoads,         \* loads started so far
    finished,       \* loading_finished emissions since the last loading_started
    aborted,        \* whether an exception raised in a slot ended the process
    ok_button,      \* HuggingfaceFileDialog.ok_button.isEnabled()
    dialog_selected_files, \* HuggingfaceFileDialog.selected_files
    dialog_result,  \* "none" without a dialog, "open", "Accepted" or "Rejected"
    returned        \* what HuggingfaceFileDialog.select_files returned: kind is "pending"
                    \* before it returns, then "None" or "list"

vars == <<tasks, start_btn, pause_btn, active_workers, completed_tasks, total_tasks,
          connections, maxThreadCount, queue, worker, nWorkers, file, events,
          fired, lastBatch, batchCancelled, nAdds, add_result, add_blank, log_text,
          proxy_enabled, environ, checkState, selected_files,
          constructed, show_toolbar, enable_simple_loading, _is_loading, stacked_widget,
          tree_widget, _selected_files, select_all_cb, _simple_loader, _detail_loader,
          loader_events, nLoads, finished, aborted, ok_button, dialog_selected_files,
          dialog_result, returned>>

ui == <<tasks, start_btn, pause_btn>>
manager == <<active_workers, completed_tasks, total_tasks, connections>>
history == <<fired, lastBatch, batchCancelled>>
proxy == <<proxy_enabled, environ>>
config == <<constructed, show_toolbar, enable_simple_loading>>
loading == <<_is_loading, stacked_widget, _simple_loader, _detail_loader, loader_events,
             nLoads, finished>>
selection == <<tree_widget, _selected_files, select_all_cb>>
hf_dialog == <<ok_button, dialog_selected_files, dialog_result, returned>>
filetree == <<config, loading, selection, aborted, hf_dialog>>
widgets == <<checkState, selected_files, filetree>>
download == <<ui, manager, maxThreadCount, queue, worker, nWorkers, file, events, history,
              nAdds, add_result, add_blank, log_text, proxy>>

\* a SingleDownloadWorker that does not exist yet
NoWorker ==
    [pc |-> "none", task |-> 0, is_cancelled |-> FALSE, resume_byte_pos |-> 0,
     downloaded |-> 0, total_size |-> 0, mode |-> "", pos |-> 0, body |-> <<>>,
     outcome |-> "none", cancelLen |-> -1, lastEmit |-> -1,
     proxy_config |-> [enabled |-> FALSE, url |-> ""]]

\* SingleDownloadWorker.__init__
NewWorker(t, proxy_config) ==
    [NoWorker EXCEPT !.pc = "queued", !.task = t, !.proxy_config = proxy_config]

EmptyMap == [x \in {} |-> 0]

\* ------------------------------------------- TreeFileSelectionDialog (main.py)

\* Qt.CheckState
Unchecked == "Unchecked"
PartiallyChecked == "PartiallyChecked"
Checked == "Checked"

\* the children of parent in the tree a parent map describes, in the order
\* sort_tree_items gives them: folders before files
sorted_children(parent_of, file_items, parent) ==
    LET kids == {i \in DOMAIN parent_of : parent_of[i] = parent}
        before(i) == Cardinality({j \in kids : (j \notin file_items /\ i \in file_items)
                                               \/ ((j \in file_items) = (i \in file_items)
                                                   /\ j < i)})
    IN [k \in 1..Cardinality(kids) |-> CHOOSE i \in kids : before(i) = k - 1]

\* the tree populate_tree builds from all_files = d/a, d/b, g/a, g/b:
\* item 1 is the folder d, 2 and 3 the files d/a and d/b, 4 the folder g,
\* 5 and 6 the files g/a and g/b.  ItemParent is 0 for a top-level item.
ItemParent == <<0, 1, 1, 0, 4, 4>>
Items == 1..Len(ItemParent)
FileItems == {2, 3, 5, 6}

\* item.data(0, UserRole): the path of a file item, None (0) for a folder
file_path(item) == IF item \in FileItems THEN item ELSE 0

\* parent.child(0), parent.child(1), ...; parent 0 is invisibleRootItem()
children(parent) == sorted_children(ItemParent, FileItems, parent)

InList(list, x) == \E k \in 1..Len(list) : list[k] = x

\* list.remove(x): the first x goes
remove(list, x) ==
    LET k == CHOOSE n \in 1..Len(list) : list[n] = x /\ \A m \in 1..(n - 1) : list[m] # x
    IN SubSeq(list, 1, k - 1) \o SubSeq(list, k + 1, Len(list))

\* lines 523-528 and 543-548: a Checked file is appended unless it is in the
\* list, any other is removed when it is in the list
record_file(list, path, state) ==
    IF state = Checked
    THEN IF InList(list, path) THEN list ELSE Append(list, path)
    ELSE IF InList(list, path) THEN remove(list, path) ELSE list

\* A handler's statements run one after another: in {f(s) : s \in {e}} the
\* state e is complete before f starts; the(S) is the element of a singleton.
the(S) == CHOOSE x \in S : TRUE

\* The dialog's state is a record st with the fields check and files.
\* tree_widget.itemChanged is connected to on_item_changed (main.py:437) and
\* no signal is ever blocked, so a setCheckState that changes an item's state
\* runs on_item_changed for that item before it returns.
RECURSIVE setCheckState(_, _, _)
RECURSIVE on_item_changed(_, _)
RECURSIVE update_children_from(_, _, _, _)
RECURSIVE update_parent_state(_, _)

\* item.setCheckState(0, state)
setCheckState(st, item, state) ==
    IF st.check[item] = state
    THEN st
    ELSE on_item_changed([st EXCEPT !.check[item] = state], item)

\* TreeFileSelectionDialog.on_item_changed(item, 0)
on_item_changed(st, item) ==
    the({update_parent_state(s1, item) :
         s1 \in {IF file_path(item) # 0
                 THEN [st EXCEPT !.files = record_file(st.files, file_path(item),
                                                       st.check[item])]
                 ELSE update_children_from(st, item, st.check[item], 1)}})

\* TreeFileSelectionDialog._update_children_state(parent_item, state), from
\* the k-th child on
update_children_from(st, parent_item, state, k) ==
    IF k > Len(children(parent_item))
    THEN st
    ELSE LET child == children(parent_item)[k]
         IN the({update_children_from(s2, parent_item, state, k + 1) :
                 s2 \in {IF file_path(child) # 0
                         THEN [s1 EXCEPT !.files = record_file(s1.files, file_path(child),
                                                               state)]
                         ELSE update_children_from(s1, child, state, 1) :
                         s1 \in {setCheckState(st, child, state)}}})

\* TreeFileSelectionDialog._update_parent_state(item)
update_parent_state(st, item) ==
    LET parent == ItemParent[item]
    IN IF parent = 0
       THEN st
       ELSE LET kids == {i \in Items : ItemParent[i] = parent}
                checked_count == Cardinality({i \in kids : st.check[i] = Checked})
                partially_checked_count ==
                    Cardinality({i \in kids : st.check[i] = PartiallyChecked})
                state == IF checked_count = Cardinality(kids) THEN Checked
                         ELSE IF checked_count > 0 \/ partially_checked_count > 0
                         THEN PartiallyChecked
                         ELSE Unchecked
            IN the({update_parent_state(s1, parent) :
                    s1 \in {setCheckState(st, parent, state)}})

\* TreeFileSelectionDialog._select_all_items(parent_item, select), from the
\* k-th child on
RECURSIVE select_all_items_from(_, _, _, _)
select_all_items_from(st, parent_item, select, k) ==
    IF k > Len(children(parent_item))
    THEN st
    ELSE LET child == children(parent_item)[k]
         IN the({select_all_items_from(s3, parent_item, select, k + 1) :
                 s3 \in {select_all_items_from(s2, child, select, 1) :
                         s2 \in {IF file_path(child) # 0 /\ select
                                    /\ ~InList(s1.files, file_path(child))
                                 THEN [s1 EXCEPT !.files = Append(s1.files, file_path(child))]
                                 ELSE s1 :
                                 s1 \in {setCheckState(st, child,
                                             IF select THEN Checked ELSE Unchecked)}}}})

\* ------------- FileTreeWidget (ui/components/tree_file_selection_dialog.py)
\* The widget is modelled in CHECKBOX mode, where tree_widget.itemChanged is
\* connected to _on_item_changed (line 423), and its tree has the shape of
\* TreeParent: every item, folder or file, carries a FileInfo.

\* the tree _add_tree_items builds from the files d/e/a, d/e/b, d/c, r:
\* item 1 is the folder d, 2 the folder d/e, 3 and 4 the files d/e/a and
\* d/e/b, 5 the file d/c and 6 the file r
TreeParent == <<0, 1, 2, 2, 1, 0>>
TreeItems == 1..Len(TreeParent)
TreeFiles == {3, 4, 5, 6}

\* parent.child(0), parent.child(1), ... in tree_widget
tree_children(parent) == sorted_children(TreeParent, TreeFiles, parent)

\* FileTreeWidget.__init__(auto_check_children=True), as HuggingfaceFileDialog passes it
auto_check_children == TRUE

\* FileInfo.is_dir
is_dir(item) == item \notin TreeFiles

\* The widget's state inside a handler is a record st: check is the check
\* state of every item of tree_widget (the empty function when the tree holds
\* no item), updating is _updating_check_state, selected is _selected_files,
\* emits lists the payloads of the selection_changed emissions so far.
child_items(st, parent_item) ==
    IF DOMAIN st.check = {} THEN <<>> ELSE tree_children(parent_item)

\* FileTreeWidget._collect_checked_items(parent_item), from the k-th child on
RECURSIVE _collect_checked_items(_, _, _)
_collect_checked_items(st, parent_item, k) ==
    IF k > Len(child_items(st, parent_item))
    THEN st
    ELSE LET item == child_items(st, parent_item)[k]
             state == st.check[item]
             s1 == IF state = Checked
                   THEN LET a == [st EXCEPT !.selected = Append(@, item)]
                        IN IF ~auto_check_children \/ ~is_dir(item)
                           THEN _collect_checked_items(a, item, 1)
                           ELSE a
                   ELSE IF state = PartiallyChecked
                   THEN _collect_checked_items(st, item, 1)
                   ELSE st
         IN _collect_checked_items(s1, parent_item, k + 1)

\* FileTreeWidget._update_selected_files
_update_selected_files(st) ==
    LET s1 == _collect_checked_items([st EXCEPT !.selected = <<>>], 0, 1)
    IN [s1 EXCEPT !.emits = Append(@, s1.selected)]

\* lines 576-586, with partial children counted as unchecked ones
parent_state_ignoring_partial(checked_count, unchecked_count, partial_count) ==
    IF checked_count > 0 /\ unchecked_count + partial_count > 0 THEN PartiallyChecked
    ELSE IF checked_count > 0 THEN Checked
    ELSE Unchecked

\* lines 576-586: the state _update_parent_check_state gives the parent
parent_state(checked_count, unchecked_count, partial_count) ==
    IF partial_count > 0 \/ (checked_count > 0 /\ unchecked_count > 0) THEN PartiallyChecked
    ELSE IF checked_count > 0 /\ unchecked_count = 0 THEN Checked
    ELSE Unchecked

RECURSIVE item_setCheckState(_, _, _)
RECURSIVE _on_item_changed(_, _)
RECURSIVE _set_children_check_state(_, _, _, _)
RECURSIVE _update_parent_check_state(_, _)

\* item.setCheckState(0, state): a change of state emits itemChanged, which
\* runs _on_item_changed before setCheckState returns
item_setCheckState(st, item, state) ==
    IF st.check[item] = state
    THEN st
    ELSE _on_item_changed([st EXCEPT !.check[item] = state], item)

\* FileTreeWidget._on_item_changed(item, 0)
_on_item_changed(st, item) ==
    IF st.updating
    THEN st
    ELSE LET s0 == [st EXCEPT !.updating = TRUE]
             s1 == IF auto_check_children
                   THEN _set_children_check_state(s0, item, s0.check[item], 1)
                   ELSE s0
             s2 == _update_parent_check_state(s1, item)
         IN _update_selected_files([s2 EXCEPT !.updating = FALSE])

\* FileTreeWidget._set_children_check_state(parent_item, state), from the
\* k-th child on
_set_children_check_state(st, parent_item, state, k) ==
    IF k > Len(child_items(st, parent_item))
    THEN st
    ELSE LET child == child_items(st, parent_item)[k]
             s1 == item_setCheckState(st, child, state)
             s2 == _set_children_check_state(s1, child, state, 1)
         IN _set_children_check_state(s2, parent_item, state, k + 1)

\* FileTreeWidget._update_parent_check_state(item)
_update_parent_check_state(st, item) ==
    LET parent == TreeParent[item]
    IN IF parent = 0
       THEN st
       ELSE LET kids == {i \in TreeItems : TreeParent[i] = parent}
                checked_count == Cardinality({i \in kids : st.check[i] = Checked})
                unchecked_count == Cardinality({i \in kids : st.check[i] = Unchecked})
                partial_count == Cardinality({i \in kids : st.check[i] = PartiallyChecked})
                s1 == item_setCheckState(st, parent,
                          parent_state(checked_count, unchecked_count, partial_count))
            IN _update_parent_check_state(s1, parent)

\* FileTreeWidget._set_all_items_checked(parent_item, checked), from the k-th
\* child on
RECURSIVE _set_all_items_checked(_, _, _, _)
_set_all_items_checked(st, parent_item, checked, k) ==
    IF k > Len(child_items(st, parent_item))
    THEN st
    ELSE LET item == child_items(st, parent_item)[k]
             s1 == item_setCheckState(st, item, IF checked THEN Checked ELSE Unchecked)
             s2 == _set_all_items_checked(s1, item, checked, 1)
         IN _set_all_items_checked(s2, parent_item, checked, k + 1)

\* FileTreeWidget._on_select_all_toggled(checked)
_on_select_all_toggled(st, checked) ==
    LET s1 == _set_all_items_checked([st EXCEPT !.updating = TRUE], 0, checked, 1)
    IN _update_selected_files([s1 EXCEPT !.updating = FALSE])

\* find_and_select_item(parent_item, remaining_paths) of select_files, from
\* the k-th child on
RECURSIVE find_and_select_item(_, _, _, _)
find_and_select_item(st, parent_item, remaining_paths, k) ==
    IF k > Len(child_items(st, parent_item))
    THEN st
    ELSE LET item == child_items(st, parent_item)[k]
             s1 == IF item \in remaining_paths
                   THEN item_setCheckState(st, item, Checked)
                   ELSE st
             s2 == find_and_select_item(s1, item, remaining_paths, 1)
         IN find_and_select_item(s2, parent_item, remaining_paths, k + 1)

\* collect_recursive(item, parent_checked) of _collect_all_checked_files with
\* include_folders=False: the files it appends to result
RECURSIVE collect_recursive(_, _, _)
RECURSIVE collect_children(_, _, _, _)
collect_recursive(check, item, parent_checked) ==
    LET current_checked == check[item] = Checked \/ parent_checked
        own == IF current_checked /\ ~is_dir(item) THEN <<item>> ELSE <<>>
    IN own \o collect_children(check, item,
                               IF auto_check_children THEN current_checked ELSE FALSE, 1)

\* the loop over item.child(j), from the k-th child on
collect_children(check, item, parent_checked, k) ==
    IF k > Len(tree_children(item))
    THEN <<>>
    ELSE collect_recursive(check, tree_children(item)[k], parent_checked)
             \o collect_children(check, item, parent_checked, k + 1)

\* FileTreeWidget._collect_all_checked_files(invisibleRootItem())
_collect_all_checked_files(check) ==
    IF DOMAIN check = {} THEN <<>> ELSE collect_children(check, 0, FALSE, 1)

\* the window after __init__: no task, the saved "concurrent_downloads" setting
\* applied by load_settings, and on disk what an earlier session left of each
\* file, nothing or a part of it
Init ==
    /\ tasks = EmptyMap
    /\ start_btn = TRUE
    /\ pause_btn = FALSE
    /\ active_workers = EmptyMap
    /\ completed_tasks = 0
    /\ total_tasks = 0
    /\ connections = 0
    /\ maxThreadCount \in 1..MaxConcurrency
    /\ queue = <<>>
    /\ worker = [w \in Workers |-> NoWorker]
    /\ nWorkers = 0
    /\ \E n \in 0..(FileSize - 1) : file = [f \in Files |-> SubSeq(Body, 1, n)]
    /\ events = <<>>
    /\ fired = 0
    /\ lastBatch = {}
    /\ batchCancelled = "no"
    /\ nAdds = 0
    /\ add_result = "none"
    /\ add_blank = FALSE
    /\ log_text = [w \in Workers |-> 0]
    /\ proxy_enabled = FALSE
    /\ environ = ""
    /\ constructed = FALSE
    /\ show_toolbar = TRUE
    /\ enable_simple_loading = TRUE
    /\ _is_loading = FALSE
    /\ stacked_widget = "tree"
    /\ tree_widget = <<>>
    /\ _selected_files = <<>>
    /\ select_all_cb = FALSE
    /\ _simple_loader = "none"
    /\ _detail_loader = "none"
    /\ loader_events = <<>>
    /\ nLoads = 0
    /\ finished = 0
    /\ aborted = FALSE
    /\ ok_button = FALSE
    /\ dialog_selected_files = <<>>
    /\ dialog_result = "none"
    /\ returned = [kind |-> "pending", list |-> <<>>]
    /\ checkState = [i \in Items |-> Unchecked]
    /\ selected_files = <<>>

\* ---------------------------------------------------------------- GUI thread

\* ---- the text of the input fields: a string is a sequence of characters

\* what str.strip() takes off
Whitespace == {" ", "\n"}

\* a field the user left empty or filled with blanks only; for the file list,
\* a text all of whose lines are blank
Blank(s) == \A i \in 1..Len(s) : s[i] \in Whitespace

Reverse(s) == [i \in 1..Len(s) |-> s[Len(s) + 1 - i]]

RECURSIVE lstrip(_)
lstrip(s) == IF s # <<>> /\ Head(s) \in Whitespace THEN lstrip(Tail(s)) ELSE s

\* str.strip()
strip(s) == Reverse(lstrip(Reverse(lstrip(s))))

\* str.split('\n')
RECURSIVE split(_)
split(s) ==
    IF \E i \in 1..Len(s) : s[i] = "\n"
    THEN LET i == CHOOSE k \in 1..Len(s) : s[k] = "\n" /\ \A j \in 1..(k - 1) : s[j] # "\n"
         IN <<SubSeq(s, 1, i - 1)>> \o split(SubSeq(s, i + 1, Len(s)))
    ELSE <<s>>

\* the name of file f as the user types it
FileName(f) == <<ToString(f)>>

\* the file of a task_id f"{repo_id}:{filename}"; the repo id is the same in
\* every call, so the filename identifies the task
task_id(filename) == CHOOSE f \in Files : FileName(f) = filename

\* what the user may have typed: a repo id and a directory, empty, blank or
\* given; and up to MaxLines lines, each empty, blank, a file name or a file
\* name with blanks around it
RepoIds == {<<>>, <<" ">>, <<"a", " ">>}
Dirs == {<<>>, <<" ">>, <<" ", "d">>}
Lines == {<<>>, <<" ">>} \cup {FileName(f) : f \in Files}
            \cup {<<" ">> \o FileName(f) \o <<" ">> : f \in Files}

RECURSIVE Join(_)
Join(ls) == IF Len(ls) = 0 THEN <<>>
            ELSE IF Len(ls) = 1 THEN ls[1]
            ELSE ls[1] \o <<"\n">> \o Join(Tail(ls))

FilesTexts == {Join(ls) : ls \in UNION {[1..n -> Lines] : n \in 0..MaxLines}}

\* [f.strip() for f in files_text.split('\n') if f.strip()]  (main.py:1096)
files(files_text) ==
    LET parts == split(files_text)
    IN {task_id(strip(parts[i])) : i \in {k \in 1..Len(parts) : strip(parts[k]) # <<>>}}

\* a validation that does not look at the directory
warning_without_local_dir(repo_id, files_text, local_dir) ==
    IF strip(repo_id) = <<>> THEN "no_repo_id"
    ELSE IF strip(files_text) = <<>> THEN "no_files"
    ELSE ""

\* the three checks of add_tasks (main.py:1079-1094) on the stripped fields:
\* the warning box shown, "" when there is none
warning(repo_id, files_text, local_dir) ==
    IF strip(repo_id) = <<>> THEN "no_repo_id"
    ELSE IF strip(files_text) = <<>> THEN "no_files"
    ELSE IF strip(local_dir) = <<>> THEN "no_local_dir"
    ELSE ""

\* HuggingFaceDownloader.add_tasks, the slot of add_btn, with the text of
\* repo_input, files_input and dir_input: a warning and nothing else, or one
\* new DownloadTask per file name, stored under its task_id, which replaces a
\* record the map already has under that id
add_tasks(repo_id, files_text, local_dir) ==
    /\ nAdds' = nAdds + 1
    /\ add_blank' = (Blank(repo_id) \/ Blank(files_text) \/ Blank(local_dir))
    /\ LET box == warning(repo_id, files_text, local_dir)
           S == files(strip(files_text))
       IN IF box # ""
          THEN /\ add_result' = box
               /\ tasks' = tasks
          ELSE /\ add_result' = "added"
               /\ tasks' = [f \in (DOMAIN tasks) \cup S |->
                              IF f \in S THEN NewTask ELSE tasks[f]]
    /\ UNCHANGED <<start_btn, pause_btn, manager, maxThreadCount, queue, worker,
                   nWorkers, file, events, history, log_text, proxy, widgets>>

\* the URL the proxy fields spell: protocol://host:port
ProxyUrl == "http://127.0.0.1:7890"

\* ProxyConfigWidget.get_proxy_url: "" when the box is not checked
get_proxy_url == IF ~proxy_enabled THEN "" ELSE ProxyUrl

\* ProxyConfigWidget.get_config
get_config == [enabled |-> proxy_enabled, url |-> get_proxy_url]

\* the user checks or unchecks proxy_enabled
toggle_proxy ==
    /\ proxy_enabled' = ~proxy_enabled
    /\ UNCHANGED <<ui, manager, maxThreadCount, queue, worker, nWorkers, file, events,
                   history, nAdds, add_result, add_blank, log_text, environ, widgets>>

\* the statuses start_download accepts (main.py:1168)
StartFilter == {NotStarted, Failed}

\* pending_tasks of start_download
PendingTasks == {f \in DOMAIN tasks : tasks[f].status \in StartFilter}

\* the position of task f in the list handed to start_downloads
Rank(f, S) == Cardinality({g \in S : g <= f})

\* MultiThreadDownloadManager.start_downloads(tasks, proxy_config): one worker
\* per task, each stored in active_workers, one more connection of
\* task_completed to _on_task_completed per task, each worker handed to the pool
start_downloads(P, proxy_config) ==
    /\ total_tasks' = Cardinality(P)
    /\ completed_tasks' = 0
    /\ worker' = [w \in Workers |->
                    IF \E f \in P : w = nWorkers + Rank(f, P)
                    THEN NewWorker(CHOOSE f \in P : w = nWorkers + Rank(f, P), proxy_config)
                    ELSE worker[w]]
    /\ nWorkers' = nWorkers + Cardinality(P)
    /\ active_workers' = [f \in (DOMAIN active_workers) \cup P |->
                            IF f \in P THEN nWorkers + Rank(f, P) ELSE active_workers[f]]
    /\ connections' = connections + Cardinality(P)
    /\ queue' = queue \o [i \in 1..Cardinality(P) |-> nWorkers + i]
    /\ fired' = 0
    /\ lastBatch' = {nWorkers + i : i \in 1..Cardinality(P)}
    /\ batchCancelled' = "no"

\* HuggingFaceDownloader.start_download, the slot of start_btn.  With no task
\* or no pending task it shows a message box and returns.
start_download ==
    /\ start_btn
    /\ DOMAIN tasks # {}
    /\ PendingTasks # {}
    /\ nWorkers + Cardinality(PendingTasks) <= MaxWorkers
    /\ start_downloads(PendingTasks, get_config)
    /\ start_btn' = FALSE
    /\ pause_btn' = TRUE
    /\ UNCHANGED <<tasks, maxThreadCount, file, events, nAdds, add_result, add_blank, log_text, proxy, widgets>>

\* the workers active_workers holds
ActiveSet == {active_workers[f] : f \in DOMAIN active_workers}

\* MultiThreadDownloadManager.cancel_all: worker.cancel() on every worker of
\* active_workers, then waitForDone(3000), then active_workers.clear().  The
\* GUI thread handles nothing while it waits and the wait ends after 3 s
\* whatever the workers do, so the steps workers take during the wait are the
\* steps they take after this action.
cancel_all ==
    /\ worker' = [w \in Workers |->
                    IF w \in ActiveSet
                    THEN [worker[w] EXCEPT !.is_cancelled = TRUE,
                                           !.cancelLen = Len(file[worker[w].task])]
                    ELSE worker[w]]
    /\ active_workers' = EmptyMap
    /\ batchCancelled' = IF \E w \in lastBatch : worker[w].outcome = "none"
                         THEN "early" ELSE "late"

\* HuggingFaceDownloader.pause_download, the slot of pause_btn
pause_download ==
    /\ pause_btn
    /\ cancel_all
    /\ start_btn' = TRUE
    /\ pause_btn' = FALSE
    /\ UNCHANGED <<tasks, completed_tasks, total_tasks, connections, maxThreadCount,
                   queue, nWorkers, file, events, fired, lastBatch, nAdds, add_result, add_blank, log_text, proxy, widgets>>

\* HuggingFaceDownloader.update_concurrent_downloads, the slot of
\* concurrent_spin.valueChanged
update_concurrent_downloads(value) ==
    /\ value # maxThreadCount
    /\ maxThreadCount' = value
    /\ UNCHANGED <<ui, manager, queue, worker, nWorkers, file, events, history, nAdds, add_result, add_blank, log_text, proxy, widgets>>

\* HuggingFaceDownloader.clear_tasks, the slot of clear_btn: self.tasks.clear()
clear_tasks ==
    /\ tasks' = EmptyMap
    /\ UNCHANGED <<start_btn, pause_btn, manager, maxThreadCount, queue, worker,
                   nWorkers, file, events, history, nAdds, add_result, add_blank, log_text, proxy, widgets>>

\* list(self.tasks.keys()): the task ids in the order of the table rows (the
\* model numbers the files in that order)
RECURSIVE Sorted(_)
Sorted(S) == IF S = {} THEN <<>>
             ELSE LET m == CHOOSE x \in S : \A y \in S : x <= y
                  IN <<m>> \o Sorted(S \ {m})

task_ids == Sorted(DOMAIN tasks)

\* HuggingFaceDownloader.remove_selected_tasks, the slot of remove_btn, with
\* the rows selected in the table: every row that is an index of task_ids has
\* its task deleted
remove_selected_tasks(selected_rows) ==
    /\ LET removed == {task_ids[row + 1] :
                         row \in {r \in selected_rows : 0 <= r /\ r < Len(task_ids)}}
       IN tasks' = [f \in (DOMAIN tasks) \ removed |-> tasks[f]]
    /\ UNCHANGED <<start_btn, pause_btn, manager, maxThreadCount, queue, worker,
                   nWorkers, file, events, history, nAdds, add_result, add_blank, log_text, proxy, widgets>>

\* closeEvent accepts the close: always when no task has the status "下载中",
\* else when the user answers Yes to the question
Accepted(reply) ==
    (\E f \in DOMAIN tasks : tasks[f].status = Downloading) => reply = "Yes"

\* HuggingFaceDownloader.closeEvent with the user's answer, and, when the
\* close is accepted, the end of the process and the next start of the
\* program (__init__: self.tasks = {}, a new manager, load_settings).
\* save_settings and load_settings carry the input fields, the spin boxes and
\* the proxy settings over and nothing of self.tasks.  The files on disk stay;
\* the workers end with the process.
closeEvent(reply) ==
    IF Accepted(reply)
    THEN /\ tasks' = EmptyMap
         /\ start_btn' = TRUE
         /\ pause_btn' = FALSE
         /\ active_workers' = EmptyMap
         /\ completed_tasks' = 0
         /\ total_tasks' = 0
         /\ connections' = 0
         /\ queue' = <<>>
         /\ worker' = [w \in Workers |-> NoWorker]
         /\ events' = <<>>
         /\ fired' = 0
         /\ lastBatch' = {}
         /\ batchCancelled' = "no"
         /\ add_result' = "none"
         /\ add_blank' = FALSE
         /\ log_text' = [w \in Workers |-> 0]
         /\ environ' = ""
         /\ UNCHANGED <<maxThreadCount, nWorkers, file, nAdds, proxy_enabled, widgets>>
    ELSE UNCHANGED vars

\* ---------------------------------------------------------------- signals

\* one queued delivery.  n is the number of connections of task_completed to
\* _on_task_completed when the signal was emitted: Qt posts one call per
\* connection.
Event(sig, w, status, progress, downloaded, total, success) ==
    [sig |-> sig, worker |-> w, task |-> worker[w].task, status |-> status,
     progress |-> progress, downloaded |-> downloaded, total |-> total,
     success |-> success, n |-> connections]

\* signals.task_started.emit(task_id)
StartedEvent(w) == Event("task_started", w, "", PctZero, 0, 0, FALSE)

\* signals.progress_updated.emit(task_id, progress, speed, status, downloaded, total)
ProgressEvent(w, progress, status, downloaded, total) ==
    Event("progress_updated", w, status, progress, downloaded, total, FALSE)

\* signals.task_completed.emit(task_id, success, message)
CompletedEvent(w, success) == Event("task_completed", w, "", PctZero, 0, 0, success)

\* the deliveries not yet handled stay within MaxQueue: an emitting worker
\* waits for the GUI thread to catch up
Room(k) == Len(events) + k <= MaxQueue

\* ---------------------------------------------------------------- pool threads

\* the positions of run() at which a worker occupies a pool thread
RunningPcs == {"request", "loop", "returned", "fallback"}

\* thread_pool.activeThreadCount()
ActiveThreadCount == Cardinality({w \in Workers : worker[w].pc \in RunningPcs})

\* run(), lines 104-109 and download_with_progress up to the stat of the
\* destination file (lines 166-174): the pool takes the oldest queued runnable
\* when a thread is free; the worker emits task_started and its first
\* progress_updated and reads the size of the file that is there.
\* A worker whose proxy_config is enabled writes its URL to the process
\* environment (lines 111-116); nothing ever removes it.
WorkerBegin(w) ==
    /\ queue # <<>>
    /\ Head(queue) = w
    /\ ActiveThreadCount < maxThreadCount
    /\ Room(2)
    /\ queue' = Tail(queue)
    /\ events' = events \o <<StartedEvent(w), ProgressEvent(w, PctZero, Preparing, 0, 0)>>
    /\ worker' = [worker EXCEPT ![w].pc = "request",
                                ![w].resume_byte_pos = Len(file[worker[w].task]),
                                ![w].lastEmit = 0]
    /\ environ' = IF worker[w].proxy_config.enabled /\ worker[w].proxy_config.url # ""
                  THEN worker[w].proxy_config.url
                  ELSE environ
    /\ UNCHANGED <<ui, manager, maxThreadCount, nWorkers, file, history, nAdds, add_result, add_blank, log_text, proxy_enabled, widgets>>

\* what the remote sends for a request from offset r: with no Range header the
\* whole file; with one, the rest of the file when it honours the header and
\* the whole file when it ignores it
ResponseBody(r, honoured) ==
    IF r > 0 /\ honoured THEN SubSeq(Body, r + 1, FileSize) ELSE Body

\* open(local_file_path, mode): 'wb' truncates, 'ab' keeps what is there
OpenFile(content, mode) == IF mode = "wb" THEN <<>> ELSE content

\* lines 176-191: the request, with a Range header when resume_byte_pos > 0,
\* total_size from content-length (plus resume_byte_pos when resuming) and the
\* open of the destination file.  A remote asked for a range that starts at or
\* after the end of the file answers with an error, and so may any request.
WorkerRequest(w, answer) ==
    /\ worker[w].pc = "request"
    /\ LET r == worker[w].resume_byte_pos
           t == worker[w].task
       IN \/ /\ answer = "error"
             /\ worker' = [worker EXCEPT ![w].pc = "fallback"]
             /\ UNCHANGED file
          \/ /\ answer \in {"partial", "full"}
             /\ r < FileSize \/ answer = "full"
             /\ r > 0 \/ answer = "full"
             /\ LET body == ResponseBody(r, answer = "partial")
                    mode == IF r > 0 THEN "ab" ELSE "wb"
                IN /\ worker' = [worker EXCEPT
                                   ![w].pc = "loop",
                                   ![w].body = body,
                                   ![w].total_size = Len(body) + (IF r > 0 THEN r ELSE 0),
                                   ![w].downloaded = r,
                                   ![w].mode = mode,
                                   ![w].pos = 0]
                   /\ file' = [file EXCEPT ![t] = OpenFile(file[t], mode)]
    /\ UNCHANGED <<ui, manager, maxThreadCount, queue, nWorkers, events, history, nAdds, add_result, add_blank, log_text, proxy, widgets>>

\* n bytes nobody wrote
Zeros(n) == [i \in 1..n |-> 0]

\* f.write(chunk): a file opened 'ab' is written at its end, a file opened
\* 'wb' at the offset of this writer
WriteChunk(content, mode, pos, chunk) ==
    IF mode = "ab" \/ pos = Len(content) THEN Append(content, chunk)
    ELSE IF pos < Len(content) THEN [content EXCEPT ![pos + 1] = chunk]
    ELSE content \o Zeros(pos - Len(content)) \o <<chunk>>

\* lines 192-205, one turn of the loop: leave it when cancelled or at the end
\* of the body; else read a chunk (the read may raise, which hands the
\* transfer to the fallback), write it, count it and call progress_callback
\* (lines 119-129), which emits progress_updated when the total is known.  A
\* cancel() that arrives during the turn is seen at the head of the next one.
WorkerRead(w, ok) ==
    /\ worker[w].pc = "loop"
    /\ LET t == worker[w].task
           d == worker[w].downloaded + 1
       IN IF worker[w].is_cancelled
          THEN /\ ok
               /\ worker' = [worker EXCEPT ![w].pc = "returned"]
               /\ UNCHANGED <<file, events>>
          ELSE IF ~ok
          THEN /\ worker' = [worker EXCEPT ![w].pc = "fallback"]
               /\ UNCHANGED <<file, events>>
          ELSE IF worker[w].body = <<>>
          THEN /\ worker' = [worker EXCEPT ![w].pc = "returned"]
               /\ UNCHANGED <<file, events>>
          ELSE /\ Room(1)
               /\ file' = [file EXCEPT ![t] = WriteChunk(file[t], worker[w].mode,
                                                       worker[w].pos, Head(worker[w].body))]
               /\ events' = IF worker[w].total_size > 0
                            THEN Append(events,
                                   ProgressEvent(w, Pct(d, worker[w].total_size),
                                                 Downloading, d, worker[w].total_size))
                            ELSE events
               /\ worker' = [worker EXCEPT
                               ![w].body = Tail(worker[w].body),
                               ![w].pos = worker[w].pos + 1,
                               ![w].downloaded = d,
                               ![w].lastEmit = IF worker[w].total_size > 0
                                               THEN d ELSE worker[w].lastEmit]
    /\ UNCHANGED <<ui, manager, maxThreadCount, queue, nWorkers, history, nAdds, add_result, add_blank, log_text, proxy, widgets>>

\* run(), lines 134-140, after download_with_progress has returned a path:
\* a worker that is not cancelled emits its last progress_updated and
\* task_completed(True); a cancelled one emits nothing
WorkerReturn(w) ==
    /\ worker[w].pc = "returned"
    /\ Room(2)
    /\ IF worker[w].is_cancelled
       THEN /\ worker' = [worker EXCEPT ![w].pc = "done", ![w].outcome = "silent"]
            /\ UNCHANGED events
       ELSE /\ events' = events \o <<ProgressEvent(w, PctFull, Completed, 0, 0),
                                     CompletedEvent(w, TRUE)>>
            /\ worker' = [worker EXCEPT ![w].pc = "done", ![w].outcome = "success",
                                        ![w].lastEmit = 0]
    /\ UNCHANGED <<ui, manager, maxThreadCount, queue, nWorkers, file, history, nAdds, add_result, add_blank, log_text, proxy, widgets>>

\* lines 209-217 and 142-148: the except branch of download_with_progress
\* calls hf_hub_download(repo_id, filename, local_dir, revision), which writes
\* under local_dir and not to local_dir/repo_id/filename, and never reads
\* is_cancelled.  It returns a path, or it raises and run() emits the failure.
WorkerFallback(w, ok) ==
    /\ worker[w].pc = "fallback"
    /\ Room(2)
    /\ IF ok
       THEN /\ worker' = [worker EXCEPT ![w].pc = "returned"]
            /\ UNCHANGED events
       ELSE /\ events' = events \o <<ProgressEvent(w, PctZero, Failed, 0, 0),
                                     CompletedEvent(w, FALSE)>>
            /\ worker' = [worker EXCEPT ![w].pc = "done", ![w].outcome = "failure",
                                        ![w].lastEmit = 0]
    /\ UNCHANGED <<ui, manager, maxThreadCount, queue, nWorkers, file, history, nAdds, add_result, add_blank, log_text, proxy, widgets>>

\* ---------------------------------------------------------------- slots

\* HuggingFaceDownloader.on_task_started
on_task_started(e) ==
    IF e.task \in DOMAIN tasks
    THEN [tasks EXCEPT ![e.task].status = Downloading]
    ELSE tasks

\* HuggingFaceDownloader.on_progress_updated
on_progress_updated(e) ==
    IF e.task \in DOMAIN tasks
    THEN [tasks EXCEPT ![e.task].progress = e.progress,
                       ![e.task].status = e.status,
                       ![e.task].downloaded = e.downloaded,
                       ![e.task].size = e.total]
    ELSE tasks

\* the log after a slot that runs once per connection made in start_downloads,
\* as _on_task_completed does
log_per_connection(e) == [log_text EXCEPT ![e.worker] = @ + e.n]

\* self.log(message), the first statement of on_task_completed (main.py:1214).
\* setup_connections connects task_completed to on_task_completed once
\* (main.py:1029), so one emission runs the slot once.
log(e) == [log_text EXCEPT ![e.worker] = @ + 1]

\* HuggingFaceDownloader.on_task_completed
on_task_completed(e) ==
    IF e.task \in DOMAIN tasks
    THEN IF e.success
         THEN [tasks EXCEPT ![e.task].status = Completed, ![e.task].progress = PctFull]
         ELSE [tasks EXCEPT ![e.task].status = Failed, ![e.task].progress = PctZero]
    ELSE tasks

\* how many of the n calls of _on_task_completed that one emission causes find
\* completed_tasks >= total_tasks and emit all_completed (lines 276-281)
AllCompletedEmits(n) ==
    Cardinality({i \in 1..n : completed_tasks + i >= total_tasks})

\* the GUI thread takes the oldest queued delivery and runs its slots: for
\* task_completed the window's on_task_completed (connected first, in
\* setup_connections) and then _on_task_completed once per connection; each
\* all_completed runs on_all_completed, which enables start_btn and disables
\* pause_btn (its message box is taken to be closed at once)
Deliver ==
    /\ events # <<>>
    /\ LET e == Head(events)
       IN /\ events' = Tail(events)
          /\ \/ /\ e.sig = "task_started"
                /\ tasks' = on_task_started(e)
                /\ UNCHANGED <<start_btn, pause_btn, manager, fired, log_text>>
             \/ /\ e.sig = "progress_updated"
                /\ tasks' = on_progress_updated(e)
                /\ UNCHANGED <<start_btn, pause_btn, manager, fired, log_text>>
             \/ /\ e.sig = "task_completed"
                /\ log_text' = log(e)
                /\ tasks' = on_task_completed(e)
                /\ completed_tasks' = completed_tasks + e.n
                /\ active_workers' = [f \in (DOMAIN active_workers) \ {e.task} |->
                                        active_workers[f]]
                /\ fired' = fired + AllCompletedEmits(e.n)
                /\ start_btn' = IF AllCompletedEmits(e.n) > 0 THEN TRUE ELSE start_btn
                /\ pause_btn' = IF AllCompletedEmits(e.n) > 0 THEN FALSE ELSE pause_btn
                /\ UNCHANGED <<total_tasks, connections>>
    /\ UNCHANGED <<maxThreadCount, queue, worker, nWorkers, file, lastBatch, batchCancelled, nAdds, add_result, add_blank, proxy, widgets>>

\* what the pool threads do
WorkerNext ==
    \/ \E w \in Workers : WorkerBegin(w)
    \/ \E w \in Workers, answer \in {"error", "partial", "full"} : WorkerRequest(w, answer)
    \/ \E w \in Workers, ok \in BOOLEAN : WorkerRead(w, ok)
    \/ \E w \in Workers : WorkerReturn(w)
    \/ \E w \in Workers, ok \in BOOLEAN : WorkerFallback(w, ok)

\* what the GUI thread does with the concurrency spin box left alone
GuiNext ==
    \/ /\ nAdds < MaxAdds
       /\ \E repo_id \in RepoIds, files_text \in FilesTexts, local_dir \in Dirs :
             add_tasks(repo_id, files_text, local_dir)
    \/ start_download
    \/ pause_download
    \/ Deliver

Next ==
    \/ GuiNext
    \/ \E value \in 1..MaxConcurrency : update_concurrent_downloads(value)
    \/ WorkerNext

Spec == Init /\ [][Next]_vars

\* the program with max_concurrency never changed after start-up
NextFixedConcurrency == GuiNext \/ WorkerNext

SpecFixedConcurrency == Init /\ [][NextFixedConcurrency]_vars

\* the program with the task list edited and the window closed and opened
\* again: up to MaxEditAdds calls of add_tasks and MaxEditWorkers workers
NextQueueEdits ==
    \/ /\ nAdds < MaxEditAdds
       /\ \E repo_id \in RepoIds, files_text \in FilesTexts, local_dir \in Dirs :
             add_tasks(repo_id, files_text, local_dir)
    \/ clear_tasks
    \/ \E selected_rows \in (SUBSET (0..(NumFiles - 1))) \ {{}} :
          remove_selected_tasks(selected_rows)
    \/ \E reply \in {"Yes", "No"} : closeEvent(reply)
    \/ start_download /\ nWorkers' <= MaxEditWorkers
    \/ pause_download
    \/ Deliver
    \/ WorkerNext

SpecQueueEdits == Init /\ [][NextQueueEdits]_vars

\* the program with the proxy settings used: the box checked and unchecked
\* between starts, up to MaxProxyWorkers workers
NextProxy ==
    \/ toggle_proxy
    \/ /\ nAdds < MaxAdds
       /\ \E repo_id \in RepoIds, files_text \in FilesTexts, local_dir \in Dirs :
             add_tasks(repo_id, files_text, local_dir)
    \/ start_download /\ nWorkers' <= MaxProxyWorkers
    \/ pause_download
    \/ Deliver
    \/ WorkerNext

SpecProxy == Init /\ [][NextProxy]_vars

\* the dialog as the record the slots work on
dialog == [check |-> checkState, files |-> selected_files]

\* the user clicks the check box of an item: Qt sets a Checked item to
\* Unchecked and any other to Checked, which emits itemChanged
click(item) ==
    /\ LET st == setCheckState(dialog, item,
                               IF checkState[item] = Checked THEN Unchecked ELSE Checked)
       IN /\ checkState' = st.check
          /\ selected_files' = st.files
    /\ UNCHANGED <<download, filetree>>

\* TreeFileSelectionDialog.select_all_files, the slot of select_all_btn
select_all_files ==
    /\ LET st == select_all_items_from([dialog EXCEPT !.files = <<>>], 0, TRUE, 1)
       IN /\ checkState' = st.check
          /\ selected_files' = st.files
    /\ UNCHANGED <<download, filetree>>

\* TreeFileSelectionDialog.deselect_all_files, the slot of deselect_all_btn
deselect_all_files ==
    /\ LET st == select_all_items_from([dialog EXCEPT !.files = <<>>], 0, FALSE, 1)
       IN /\ checkState' = st.check
          /\ selected_files' = st.files
    /\ UNCHANGED <<download, filetree>>

\* the file selection dialog open over the window: the user clicks items and
\* the two buttons
NextTreeDialog ==
    \/ \E item \in Items : click(item)
    \/ select_all_files
    \/ deselect_all_files

SpecTreeDialog == Init /\ [][NextTreeDialog]_vars

\* ------------------------- FileTreeWidget and HuggingfaceFileDialog: actions

\* everything outside the FileTreeWidget and its dialog
window == <<download, checkState, selected_files>>

\* the FileTreeWidget as a handler finds it
widget == [check |-> tree_widget, updating |-> FALSE, selected |-> _selected_files,
           emits |-> <<>>]

\* the HuggingfaceFileDialog as a handler finds it
hf == [selected_files |-> dialog_selected_files, ok_button |-> ok_button]

\* the widget and its dialog are there and the process runs
alive == constructed /\ ~aborted /\ dialog_result \in {"none", "open"}

\* HuggingfaceFileDialog._on_selection_changed(selected_files)
_on_selection_changed(d, selected_files_arg) ==
    [d EXCEPT !.selected_files = selected_files_arg, !.ok_button = selected_files_arg # <<>>]

\* file_tree.selection_changed is connected to the dialog's slot (line 1437):
\* the slot runs once per emission, in order, from the k-th on
RECURSIVE selection_changed(_, _, _)
selection_changed(d, emits, k) ==
    IF dialog_result # "open" \/ k > Len(emits)
    THEN d
    ELSE selection_changed(_on_selection_changed(d, emits[k]), emits, k + 1)

\* _update_selection_info reads selection_info_label and total_size_label,
\* which _setup_ui creates only with show_toolbar (lines 318, 344-346):
\* without them it raises AttributeError (line 461)
_update_selection_info_raises == ~show_toolbar

\* An exception that leaves a slot ends the process (PyQt6 calls qFatal())
\* unless the application installed its own sys.excepthook.
slot_raised(raised) == aborted' \in (IF raised THEN BOOLEAN ELSE {FALSE})

\* what a handler of the tree leaves: the widget's state st, the dialog told
\* of every selection_changed
after_handler(st) ==
    /\ tree_widget' = st.check
    /\ _selected_files' = st.selected
    /\ LET d == selection_changed(hf, st.emits, 1)
       IN /\ dialog_selected_files' = d.selected_files
          /\ ok_button' = d.ok_button

\* FileTreeWidget.__init__(show_toolbar, enable_simple_loading) in CHECKBOX mode
FileTreeWidget_init(tb, simple) ==
    /\ ~constructed
    /\ constructed' = TRUE
    /\ show_toolbar' = tb
    /\ enable_simple_loading' = simple
    /\ UNCHANGED <<window, loading, selection, aborted, hf_dialog>>

\* load_data past its guard: loading_started.emit(), whose slot
\* _on_loading_started runs at once, then the first DataLoader starts
begin_load(simple) ==
    /\ _is_loading' = TRUE
    /\ stacked_widget' = "loading"
    /\ _simple_loader' = IF simple THEN "running" ELSE _simple_loader
    /\ _detail_loader' = IF simple THEN _detail_loader ELSE "running"
    /\ nLoads' = nLoads + 1
    /\ finished' = 0
    /\ UNCHANGED loader_events

\* HuggingfaceFileDialog.__init__: the tree of _setup_ui (lines 1399-1408),
\* the OK button disabled, and file_tree.load_data()
HuggingfaceFileDialog_init ==
    /\ ~constructed
    /\ constructed' = TRUE
    /\ show_toolbar' = TRUE
    /\ enable_simple_loading' = FALSE
    /\ dialog_result' = "open"
    /\ ok_button' = FALSE
    /\ dialog_selected_files' = <<>>
    /\ begin_load(FALSE)
    /\ UNCHANGED <<window, selection, aborted, returned>>

\* FileTreeWidget.load_data; the dialog's _on_loading_started disables OK
load_data ==
    /\ alive
    /\ IF _is_loading
       THEN UNCHANGED vars
       ELSE /\ begin_load(enable_simple_loading)
            /\ ok_button' = IF dialog_result = "open" THEN FALSE ELSE ok_button
            /\ UNCHANGED <<window, config, selection, aborted, dialog_selected_files,
                           dialog_result, returned>>

\* FileTreeWidget.refresh, the slot of refresh_btn and of _refresh_timer
refresh == load_data

\* DataLoader.run in its thread: loader_func returns the repository's file
\* list ("files") or an empty list ("empty"), or it raises ("raises")
DataLoader_run(which, outcome) ==
    /\ alive
    /\ IF which = "simple" THEN _simple_loader = "running" ELSE _detail_loader = "running"
    /\ _simple_loader' = IF which = "simple" THEN "finished" ELSE _simple_loader
    /\ _detail_loader' = IF which = "detail" THEN "finished" ELSE _detail_loader
    /\ loader_events' = Append(loader_events,
                               [from |-> which,
                                signal |-> IF outcome = "raises" THEN "error_occurred"
                                           ELSE "data_loaded",
                                data |-> outcome])
    /\ UNCHANGED <<window, config, _is_loading, stacked_widget, nLoads, finished,
                   selection, aborted, hf_dialog>>

\* _add_tree_items after tree_widget.clear(): every item is created
\* Unchecked, and creating one emits itemChanged, so that _on_item_changed
\* runs through _update_selected_files
_add_tree_items(st, data) ==
    IF data = "files"
    THEN _update_selected_files([st EXCEPT !.check = [i \in TreeItems |-> Unchecked]])
    ELSE [st EXCEPT !.check = <<>>]

\* loading_finished.emit(): _on_loading_finished of the widget, then
\* _on_loading_finished of the dialog, which sees the selected_files d holds
emit_loading_finished(d) ==
    /\ finished' = finished + 1
    /\ _is_loading' = FALSE
    /\ stacked_widget' = "tree"
    /\ ok_button' = IF dialog_result = "open" /\ d.selected_files # <<>>
                    THEN TRUE ELSE d.ok_button
    /\ dialog_selected_files' = d.selected_files

\* FileTreeWidget._on_simple_data_loaded(data)
_on_simple_data_loaded(data) ==
    LET st == _add_tree_items(widget, data)
    IN /\ after_handler(st)
       /\ slot_raised(_update_selection_info_raises /\ data = "files")
       /\ stacked_widget' = "tree"
       /\ _detail_loader' = "running"
       /\ UNCHANGED <<_is_loading, _simple_loader, nLoads, finished>>

\* FileTreeWidget._on_detailed_data_loaded(data)
_on_detailed_data_loaded(data) ==
    LET s1 == _add_tree_items(widget, data)
        st == [s1 EXCEPT !.selected = <<>>]
    IN /\ IF _update_selection_info_raises
          THEN /\ after_handler(st)
               /\ slot_raised(TRUE)
               /\ UNCHANGED <<_is_loading, stacked_widget, finished>>
          ELSE /\ tree_widget' = st.check
               /\ _selected_files' = st.selected
               /\ slot_raised(FALSE)
               /\ emit_loading_finished(selection_changed(hf, st.emits, 1))
       /\ UNCHANGED <<_simple_loader, _detail_loader, nLoads>>

\* FileTreeWidget._on_data_error(error_msg)
_on_data_error ==
    /\ emit_loading_finished(hf)
    /\ UNCHANGED <<tree_widget, _selected_files, aborted, _simple_loader, _detail_loader,
                   nLoads>>

\* the GUI thread delivers the oldest queued signal of a DataLoader to the
\* slot connected to it (lines 712-713, 721-722)
DeliverLoaded ==
    /\ alive
    /\ loader_events # <<>>
    /\ loader_events' = Tail(loader_events)
    /\ LET e == Head(loader_events)
       IN IF e.signal = "error_occurred" THEN _on_data_error
          ELSE IF e.from = "simple" THEN _on_simple_data_loaded(e.data)
          ELSE _on_detailed_data_loaded(e.data)
    /\ UNCHANGED <<window, config, select_all_cb, dialog_result, returned>>

\* the user clicks the checkbox of an item of the visible tree: Qt toggles
\* its state and emits itemChanged
check_click(item) ==
    /\ alive
    /\ stacked_widget = "tree"
    /\ item \in DOMAIN tree_widget
    /\ after_handler(_on_item_changed(
           [widget EXCEPT !.check[item] = IF @ = Checked THEN Unchecked ELSE Checked],
           item))
    /\ slot_raised(_update_selection_info_raises)
    /\ UNCHANGED <<window, config, loading, select_all_cb, dialog_result, returned>>

\* the user toggles select_all_cb: toggled(checked) runs _on_select_all_toggled
select_all_toggled ==
    /\ alive
    /\ show_toolbar
    /\ select_all_cb' = ~select_all_cb
    /\ after_handler(_on_select_all_toggled(widget, ~select_all_cb))
    /\ slot_raised(FALSE)
    /\ UNCHANGED <<window, config, loading, dialog_result, returned>>

\* FileTreeWidget.clear_selection, the slot of clear_selection_btn:
\* select_all_cb.setChecked(False) emits toggled when the box was checked
clear_selection ==
    /\ alive
    /\ LET s1 == _set_all_items_checked([widget EXCEPT !.updating = TRUE], 0, FALSE, 1)
           s2 == [s1 EXCEPT !.updating = FALSE]
           s3 == IF show_toolbar /\ select_all_cb
                 THEN _on_select_all_toggled(s2, FALSE)
                 ELSE s2
       IN after_handler([s3 EXCEPT !.selected = <<>>])
    /\ select_all_cb' = FALSE
    /\ slot_raised(_update_selection_info_raises)
    /\ UNCHANGED <<window, config, loading, dialog_result, returned>>

\* FileTreeWidget.select_files(file_paths)
select_files(file_paths) ==
    /\ alive
    /\ after_handler(_update_selected_files(
           find_and_select_item(widget, 0, file_paths, 1)))
    /\ slot_raised(_update_selection_info_raises)
    /\ UNCHANGED <<window, config, loading, select_all_cb, dialog_result, returned>>

\* FileTreeWidget.get_all_selected_files, which the dialog's
\* get_selected_files returns
get_all_selected_files == _collect_all_checked_files(tree_widget)

\* accept with the list _on_selection_changed stored instead of a fresh one
accept_stored_selection ==
    /\ dialog_result = "open" /\ ok_button /\ ~aborted
    /\ IF dialog_selected_files = <<>>
       THEN UNCHANGED <<dialog_result, returned>>
       ELSE /\ dialog_result' = "Accepted"
            /\ returned' = [kind |-> "list", list |-> get_all_selected_files]
    /\ UNCHANGED <<window, config, loading, selection, aborted, ok_button,
                   dialog_selected_files>>

\* HuggingfaceFileDialog.accept, the slot of the OK button.  On Accepted
\* exec() returns and select_files returns get_selected_files() before the
\* GUI thread handles another event.
accept ==
    /\ dialog_result = "open" /\ ok_button /\ ~aborted
    /\ dialog_selected_files' = get_all_selected_files
    /\ IF get_all_selected_files = <<>>
       THEN UNCHANGED <<dialog_result, returned>>
       ELSE /\ dialog_result' = "Accepted"
            /\ returned' = [kind |-> "list", list |-> get_all_selected_files]
    /\ UNCHANGED <<window, config, loading, selection, aborted, ok_button>>

\* QDialog.reject, the slot of the Cancel button: select_files returns None
reject ==
    /\ dialog_result = "open" /\ ~aborted
    /\ dialog_result' = "Rejected"
    /\ returned' = [kind |-> "None", list |-> <<>>]
    /\ UNCHANGED <<window, config, loading, selection, aborted, ok_button,
                   dialog_selected_files>>

\* the paths select_files is called with
PathSets == {ps \in SUBSET TreeItems : Cardinality(ps) <= MaxPaths}

\* a FileTreeWidget, on its own or inside a HuggingfaceFileDialog, its loader
\* threads and its user
NextFileTree ==
    \/ \E tb \in BOOLEAN, simple \in BOOLEAN : FileTreeWidget_init(tb, simple)
    \/ HuggingfaceFileDialog_init
    \/ (_is_loading \/ nLoads < MaxLoads) /\ load_data
    \/ (_is_loading \/ nLoads < MaxLoads) /\ refresh
    \/ \E which \in {"simple", "detail"}, outcome \in {"files", "empty", "raises"} :
           DataLoader_run(which, outcome)
    \/ DeliverLoaded
    \/ \E item \in TreeItems : check_click(item)
    \/ select_all_toggled
    \/ clear_selection
    \/ \E ps \in PathSets : select_files(ps)
    \/ accept
    \/ reject

SpecFileTree == Init /\ [][NextFileTree]_vars

\* ---------------------------------------------------------------- claims

\* the task_completed of worker w has been emitted and handled
TerminalDelivered(w) ==
    /\ worker[w].outcome \in {"success", "failure"}
    /\ \A i \in 1..Len(events) :
         ~(events[i].sig = "task_completed" /\ events[i].worker = w)

\* C1: in a batch that cancel_all has not touched, all_completed fires at most
\* once, and when it has fired every worker the start call dispatched has
\* had its terminal outcome (task_completed, success or failure) delivered.
C1_AllCompletedOnceAfterAllOutcomes ==
    batchCancelled = "no" =>
        /\ fired <= 1
        /\ fired >= 1 => \A w \in lastBatch : TerminalDelivered(w)

\* C2: when cancel_all ran before every worker of the batch had finished,
\* all_completed does not fire for that batch, whatever the workers do later.
C2_NoAllCompletedAfterCancel ==
    batchCancelled = "early" => fired = 0

\* C3: in every state at most max_concurrency tasks have the status
\* 'downloading'.  Checked with max_concurrency fixed, where the claim is at
\* its weakest.
C3_AtMostNDownloading ==
    Cardinality({f \in DOMAIN tasks : tasks[f].status = Downloading}) <= maxThreadCount

\* the status the claims call 'paused'; main.py assigns it nowhere
Paused == "paused"

\* C4: right after cancel_all (pause_download), every task of the cancelled
\* batch that was 'downloading' is 'paused', every task whose worker was
\* still queued is 'not-started', and none is 'downloading' or 'preparing'.
C4_CancelResetsStatuses ==
    [][pause_download =>
         \A f \in DOMAIN active_workers \cap DOMAIN tasks :
            /\ tasks[f].status = Downloading => tasks'[f].status = Paused
            /\ worker[active_workers[f]].pc = "queued" => tasks'[f].status = NotStarted
            /\ tasks'[f].status \notin {Downloading, Preparing}]_vars

\* a worker of task f was cancelled by cancel_all before it finished
Interrupted(f) ==
    \E w \in Workers :
        /\ worker[w].task = f
        /\ worker[w].is_cancelled
        /\ worker[w].outcome = "silent"

\* no worker of task f is queued or running and no signal for f is under way
Quiescent(f) ==
    /\ \A w \in Workers : worker[w].task = f => worker[w].pc = "done"
    /\ \A i \in 1..Len(events) : events[i].task # f

\* C5: a task that cancel_all interrupted, once its worker has stopped, has a
\* status the next start() accepts, so it is dispatched again.
C5_InterruptedTaskIsStartable ==
    \A f \in DOMAIN tasks :
        (Interrupted(f) /\ Quiescent(f) /\ tasks[f].status # Completed)
            => tasks[f].status \in StartFilter

\* a worker for task f is queued in the pool or running
InFlight(f) ==
    \E w \in Workers : worker[w].task = f /\ worker[w].pc \notin {"none", "done"}

\* C6: start() dispatches a worker for exactly the tasks whose status is
\* not-started, failed or paused; it dispatches none for a task that is
\* completed or in flight; and with every task completed no worker is
\* dispatched at all.
C6_StartDispatchesExactlyEligible ==
    [][/\ start_download =>
            LET dispatched == {worker'[w].task : w \in (nWorkers + 1)..nWorkers'}
            IN /\ dispatched =
                    {f \in DOMAIN tasks : tasks[f].status \in {NotStarted, Failed, Paused}}
               /\ \A f \in DOMAIN tasks :
                    (tasks[f].status = Completed \/ InFlight(f)) => f \notin dispatched
       /\ (\A f \in DOMAIN tasks : tasks[f].status = Completed) =>
            (nWorkers' = nWorkers /\ queue' = queue)]_vars

\* C7: a run that found a partial file of R chunks, 0 < R < size, read the
\* remote's answer to its range request (the rest or the whole body) to the
\* end and reports success leaves the file equal to the remote file.
C7_ResumeYieldsTheRemoteFile ==
    [][\A w \in Workers :
          (/\ worker[w].pc = "returned"
           /\ worker'[w].outcome = "success"
           /\ worker[w].mode = "ab"
           /\ worker[w].body = <<>>
           /\ worker[w].resume_byte_pos \in 1..(FileSize - 1))
          => file[worker[w].task] = Body]_vars

\* C8: once a worker's cancel flag is set the destination file is never
\* shorter than it was when the flag was set.
C8_CancelNeverShrinksFile ==
    \A w \in Workers :
        worker[w].is_cancelled => Len(file[worker[w].task]) >= worker[w].cancelLen

\* C9: a worker whose cancel flag was set before it finished never emits
\* task_completed(failure).
C9_CancelledNeverFails ==
    [][\A w \in Workers :
          (worker[w].is_cancelled /\ worker[w].outcome = "none")
          => worker'[w].outcome # "failure"]_vars

\* C10: the downloaded values one worker run emits with progress_updated
\* never decrease, and once the run is under way none is below the resume
\* offset.
C10_ProgressNonDecreasing ==
    [][\A w \in Workers :
          /\ worker'[w].lastEmit >= worker[w].lastEmit
          /\ (worker[w].pc \in RunningPcs /\ worker'[w].lastEmit # worker[w].lastEmit)
             => worker'[w].lastEmit >= worker[w].resume_byte_pos]_vars

\* the ratios a and b are the same number
SameRatio(a, b) == a[1] * b[2] = b[1] * a[2]

\* C11: in every state every task record has downloaded <= size and
\* progress = downloaded/size*100 when size > 0, and progress = 0 when
\* size = 0.
C11_TaskRecordInvariant ==
    \A f \in DOMAIN tasks :
        IF tasks[f].size > 0
        THEN /\ tasks[f].downloaded <= tasks[f].size
             /\ SameRatio(tasks[f].progress, Pct(tasks[f].downloaded, tasks[f].size))
        ELSE SameRatio(tasks[f].progress, PctZero)

\* C12: once a task's status is completed no step changes it: a task that
\* is completed and still in the task map keeps the status completed.
C12_CompletedIsTerminal ==
    [][\A f \in DOMAIN tasks :
          (tasks[f].status = Completed /\ f \in DOMAIN tasks')
              => tasks'[f].status = Completed]_vars

\* C17: a worker that cancel_all found still waiting in the pool never
\* starts: a queued worker whose cancel flag is set does not leave the queue
\* to run (it emits no task_started, makes no request and opens no file).
C17_CancelClearsQueuedWork ==
    [][\A w \in Workers :
          (worker[w].pc = "queued" /\ worker[w].is_cancelled)
              => worker'[w].pc \in {"queued", "none"}]_vars

\* C18: once a worker's cancel flag is set the worker stops at the next
\* chunk boundary on every path: its loop turns write nothing more to the
\* file, and it never runs the fallback download of the whole file to its
\* end.
C18_CancelStopsEveryTransferPath ==
    [][\A w \in Workers :
          worker[w].is_cancelled =>
              /\ ~WorkerFallback(w, TRUE)
              /\ \A ok \in BOOLEAN : WorkerRead(w, ok) => file' = file]_vars

\* C19: start() sets every accepted task to preparing before any worker is
\* dispatched: in the state right after start_download every task it has
\* dispatched a worker for has the status preparing.
C19_StartSetsPreparing ==
    [][start_download =>
          \A f \in PendingTasks : tasks'[f].status = Preparing]_vars

\* C20: while a worker of a task runs, a task whose status is downloading
\* changes only to completed, failed or paused; it never goes back to
\* preparing or not-started.
C20_DownloadingNeverGoesBack ==
    [][\A f \in DOMAIN tasks :
          (tasks[f].status = Downloading /\ InFlight(f) /\ f \in DOMAIN tasks')
              => tasks'[f].status \in {Downloading, Completed, Failed, Paused}]_vars

\* the task_completed deliveries of worker w that are still on their way
PendingCompleted(w) ==
    Cardinality({i \in 1..Len(events) :
                    events[i].sig = "task_completed" /\ events[i].worker = w})

\* C13: a worker run that ends in success or failure causes exactly one
\* task_completed delivery and, once that is handled, exactly one logged
\* message, however many tasks the batch has and however often start() was
\* called before; a run that has not ended that way causes none.
C13_OneCompletionMessagePerRun ==
    \A w \in Workers :
        IF worker[w].outcome \in {"success", "failure"}
        THEN PendingCompleted(w) + log_text[w] = 1
        ELSE PendingCompleted(w) = 0 /\ log_text[w] = 0

\* the message of a run is logged when task_completed is connected to the
\* manager's slot several times
C13_Witness ==
    \E w \in Workers :
        /\ w >= 2
        /\ worker[w].outcome \in {"success", "failure"}
        /\ log_text[w] = 1
        /\ connections >= 2

\* the manager holds a worker that is queued or running
BatchActive ==
    \E f \in DOMAIN active_workers :
        worker[active_workers[f]].pc \notin {"none", "done"}

\* C14: while a worker is dispatched or queued in the manager, clear_tasks
\* and remove_selected_tasks leave the task map as it is.
C14_NoEditWhileActive ==
    [][(BatchActive /\ (clear_tasks \/ \E selected_rows \in SUBSET (0..(NumFiles - 1)) :
                                          remove_selected_tasks(selected_rows)))
          => tasks' = tasks]_vars

\* C15: a call of add_tasks with a missing repo id, a missing directory or a
\* file list that is empty or has only blank lines creates no task and
\* changes no task record.
C15_InvalidSubmissionRejected ==
    [][(nAdds' = nAdds + 1 /\ add_blank') => tasks' = tasks]_vars

\* a call was rejected while the map held a task a worker had already touched
C15_Witness ==
    /\ add_blank
    /\ add_result \in {"no_repo_id", "no_files", "no_local_dir"}
    /\ \E f \in DOMAIN tasks : tasks[f].status # NotStarted

\* C16: after the window is closed and the program started again the task
\* map holds every task that was not completed at the close and no completed
\* one.
C16_TasksSurviveRestart ==
    [][\A reply \in {"Yes", "No"} :
          (Accepted(reply) /\ closeEvent(reply))
              => DOMAIN tasks' = {f \in DOMAIN tasks : tasks[f].status # Completed}]_vars

\* C21: when a task becomes failed its progress, downloaded and size keep
\* the values last reported before the failure.
C21_FailureKeepsProgress ==
    [][\A f \in (DOMAIN tasks) \cap (DOMAIN tasks') :
          (tasks[f].status # Failed /\ tasks'[f].status = Failed)
              => /\ tasks'[f].progress = tasks[f].progress
                 /\ tasks'[f].downloaded = tasks[f].downloaded
                 /\ tasks'[f].size = tasks[f].size]_vars

\* C22: a worker that finds the destination file already as long as the
\* whole remote file (the total size an earlier run learned) issues no
\* request and leaves the file as it is.
C22_CompleteFileShortCircuits ==
    [][\A w \in Workers :
          (worker[w].pc = "request" /\ worker[w].resume_byte_pos >= FileSize)
              => \A answer \in {"error", "partial", "full"} : ~WorkerRequest(w, answer)]_vars

\* C23: in every state completed_tasks <= total_tasks, and completed_tasks
\* is the number of workers of the current batch whose terminal outcome has
\* been handled (so it is M when all_completed fires for a batch of M).
C23_CompletedCountsOutcomes ==
    /\ completed_tasks <= total_tasks
    /\ completed_tasks = Cardinality({w \in lastBatch : TerminalDelivered(w)})

\* C24: the task map, active_workers and the counters are written by the
\* handlers of the GUI thread only: no step of a worker changes them; and the
\* handling of one task_completed emission counts exactly once in
\* completed_tasks, so no update is lost or duplicated.
C24_OnlyHandlersWriteSharedState ==
    [][/\ WorkerNext => UNCHANGED <<tasks, active_workers, completed_tasks, total_tasks>>
       /\ (events # <<>> /\ Head(events).sig = "task_completed" /\ Deliver)
              => completed_tasks' = completed_tasks + 1]_vars

\* the first half of C24 alone: no step of a worker writes the shared state
WorkersWriteNoSharedState ==
    [][WorkerNext => UNCHANGED <<tasks, active_workers, completed_tasks, total_tasks>>]_vars

\* the direct transfer of worker w has written the whole remote file and has
\* nothing left to read
WroteWholeFile(w) ==
    /\ worker[w].mode \in {"ab", "wb"}
    /\ worker[w].body = <<>>
    /\ file[worker[w].task] = Body

\* C25: whatever cancel_all does meanwhile, a run whose transfer reached the
\* end of the stream with the file completely written does not end without
\* task_completed(success): it never ends silently, leaving its task in a
\* non-terminal status.
C25_FullDownloadReportsSuccess ==
    [][\A w \in Workers :
          (WroteWholeFile(w) /\ worker[w].pc \in {"loop", "returned"})
              => worker'[w].outcome # "silent"]_vars

\* C26: a transfer started with the proxy disabled finds no proxy in the
\* process environment when it makes its request: what it runs with depends
\* on its own proxy_config only.
C26_ProxyIsPerTransfer ==
    [][\A w \in Workers :
          (~worker[w].proxy_config.enabled
           /\ \E answer \in {"error", "partial", "full"} : WorkerRequest(w, answer))
              => environ = ""]_vars

\* the paths selected_files holds
SelectedSet == {selected_files[k] : k \in 1..Len(selected_files)}

\* C27: in TreeFileSelectionDialog a click on one file item changes the
\* check state of no other file item and adds or removes exactly that file's
\* path; after every operation selected_files holds, without duplicates,
\* exactly the paths of the Checked file items; and a file just checked is
\* in it.
C27_SelectionFollowsChecks ==
    [][/\ \A item \in FileItems :
             click(item) =>
                 /\ \A other \in FileItems \ {item} : checkState'[other] = checkState[other]
                 /\ IF checkState[item] = Checked
                    THEN {selected_files'[k] : k \in 1..Len(selected_files')}
                             = SelectedSet \ {item}
                    ELSE /\ {selected_files'[k] : k \in 1..Len(selected_files')}
                                = SelectedSet \cup {item}
                         /\ checkState'[item] = Checked
       /\ ((\E item \in FileItems : click(item)) \/ select_all_files \/ deselect_all_files)
              => /\ {selected_files'[k] : k \in 1..Len(selected_files')}
                        = {i \in FileItems : checkState'[i] = Checked}
                 /\ Cardinality({selected_files'[k] : k \in 1..Len(selected_files')})
                        = Len(selected_files')]_vars

\* C28: in a FileTreeWidget in CHECKBOX mode with auto_check_children, after
\* any sequence of checkbox clicks, select-all, clear-selection and
\* select_files operations, every folder item with children is Checked iff all
\* its children are Checked, Unchecked iff all its children are Unchecked, and
\* PartiallyChecked otherwise.
C28_FolderStateFollowsChildren ==
    (constructed /\ auto_check_children /\ DOMAIN tree_widget # {}) =>
        \A folder \in TreeItems :
            LET kids == {i \in TreeItems : TreeParent[i] = folder}
            IN kids # {} =>
                   /\ tree_widget[folder] = Checked
                          <=> \A i \in kids : tree_widget[i] = Checked
                   /\ tree_widget[folder] = Unchecked
                          <=> \A i \in kids : tree_widget[i] = Unchecked
                   /\ tree_widget[folder] \in {Checked, Unchecked, PartiallyChecked}

\* a folder checked as a whole inside a folder that is only partly checked
C28_Witness ==
    /\ DOMAIN tree_widget # {}
    /\ tree_widget[2] = Checked
    /\ tree_widget[1] = PartiallyChecked
    /\ tree_widget[6] = Checked

\* a load is still on its way: a DataLoader runs or its signal is queued
LoadOnItsWay ==
    \/ _simple_loader = "running"
    \/ _detail_loader = "running"
    \/ loader_events # <<>>

\* C29: loading of a FileTreeWidget is single-flight: while a load is in
\* progress no step, load_data() and refresh() included, starts a loader;
\* every load that started ends with loading_finished emitted exactly once and
\* _is_loading false, whether the loaders return or raise: no handler of a
\* loader's signal ends the process, and _is_loading stays true only while a
\* loader or its signal is on its way.
C29_LoadingIsSingleFlight ==
    [][/\ _is_loading =>
              /\ nLoads' = nLoads
              /\ (load_data \/ refresh) => UNCHANGED vars
       /\ DeliverLoaded => ~aborted'
       /\ (_is_loading' /\ ~aborted') => (finished' = 0 /\ LoadOnItsWay')
       /\ (~_is_loading' /\ nLoads' > 0) => finished' = 1]_vars

\* C30: a HuggingfaceFileDialog is accepted only when at least one file is
\* checked in the tree: whenever accept() closes the dialog as Accepted,
\* get_selected_files() is non-empty, and select_files() returns None or a
\* non-empty list.
C30_AcceptedOnlyWithSelection ==
    /\ dialog_result = "Accepted" =>
           /\ get_all_selected_files # <<>>
           /\ \E item \in TreeFiles : tree_widget[item] = Checked
           /\ returned = [kind |-> "list", list |-> get_all_selected_files]
    /\ returned.kind = "list" => (returned.list # <<>> /\ dialog_result = "Accepted")

\* the dialog was accepted after a reload, with a part of a folder checked
C30_Witness ==
    /\ dialog_result = "Accepted"
    /\ nLoads = 2
    /\ returned.list = <<3>>
====
